---- MODULE Spec2Model ----
(***************************************************************************)
(* Model of contrib/runners/mistral_v2/mistral_v2.py: the MistralRunner    *)
(* that registers a workflow/workbook definition with the remote engine,   *)
(* starts or re-runs a remote execution under a retry decorator, and       *)
(* threads the "mistral" sub-map of the execution context.                 *)
(*                                                                         *)
(* Python dicts are functions whose DOMAIN is the set of keys present.     *)
(* Dotted names ("pack.wf.a") are sequences of their segments.             *)
(* A failed remote call is assumed to have had no effect on the engine.    *)
(***************************************************************************)
EXTENDS Integers, Sequences, FiniteSets, TLC

\* ---------------------------------------------------------------- bounds
MaxText == 2        \* distinct definition texts
MaxRuns == 2        \* invocations of run() by the orchestrator
MaxRetries == 1     \* retries the retry decorator's time budget allows
MaxDepth == 3       \* length of a chain of context merges
MaxTasks == 3       \* task names one re-run request may hold
MaxReruns == 1      \* re-run requests, each with its retries

\* ------------------------------------------------------------- constants
ActionRef == <<"pack", "wf">>
OtherRef == <<"pack", "other">>
Texts == 1..MaxText
EmptyMap == [k \in {} |-> ""]
IdTable == <<"ex1", "ex2", "ex3", "ex4", "ex5", "ex6">>

\* str(execution.id): the textual form of an engine id
IdStr(n) == IdTable[n]

\* dict.update: the keys of b override those of a
Update(a, b) ==
    [k \in (DOMAIN a) \cup (DOMAIN b) |-> IF k \in DOMAIN b THEN b[k] ELSE a[k]]

\* presence of the key alone
Truthy_present(m, k) == k \in DOMAIN m

\* dict.get(key) truthiness: present and not empty
Truthy(m, k) == k \in DOMAIN m /\ m[k] # ""

VARIABLES
    pc,               \* position of the runner inside run()
    retries,          \* retries of run() used by the decorator
    error,            \* exception run() ended with ("" when none)
    result,           \* (status, partial_results, exec_context) returned
    calls,            \* remote calls in order: of a start, those of the
                      \* invocation, with a "retry" entry where the decorator
                      \* re-ran run(); of a re-run, those of the current
                      \* attempt (reruns keeps the earlier tasks.rerun calls)
    lastCall,         \* the most recent remote call and its exact outcome
    faulted,          \* a remote call of this invocation failed for a reason
                      \* other than the state of the engine
    registered0,      \* engine registry when the invocation began
    workflows,        \* engine: workflow text registered under action_ref
    workbooks,        \* engine: workbook text registered under action_ref
    executions,       \* engine: ids of the executions created, in order
    execution,        \* the execution executions.create returned
    def_dict,         \* parsed definition of the action's entry point
    workflow_param,   \* runner_parameters.get('workflow')
    wb,               \* the wb / wf local of _save_workbook / _save_workflow
    default_workflow, \* workflow name handed to executions.create
    context,          \* self.context as read when the result is built
    runs,             \* invocations of run() so far
    prevSave,         \* the _save_* call before the current one
    curSave,          \* the current / latest _save_* call
    created,          \* executions created by the current invocation
    depth,            \* merges in the chain that produced result's context
    rerun_ex_ref,     \* self.rerun_ex_ref: the execution to re-run, if any
    task_specs,       \* requested task name -> {'reset': flag}
    exState,          \* engine: state of each workflow execution
    taskState,        \* engine: state of each task execution
    spawnedBy,        \* engine: task_execution_id of each workflow execution
    tasks,            \* resume_workflow's tasks: full task name -> task id
    todo,             \* names the running loop of resume_workflow has left
    missing_tasks,    \* the names the rerun error message lists
    reruns,           \* tasks.rerun calls of the current invocation
    operation,        \* the lifecycle method invoked: pause, resume, cancel
    childStatus,      \* orchestrator: status of each child of self.execution
    actionEx,         \* engine: state of the parent-side action execution
    requests,         \* lifecycle requests of the current invocation, with
                      \* the child's status as the loop read it
    child_i,          \* children the loop over self.execution.children passed
    parent0,          \* the caller's context as it was before the latest merge
    current0,         \* the current fields of the latest merge
    again             \* what the same merge returned when called once more

vars == <<pc, retries, error, result, calls, lastCall, faulted, registered0,
          workflows, workbooks, executions, execution, def_dict,
          workflow_param, wb, default_workflow, context, runs, prevSave,
          curSave, created, depth, rerun_ex_ref, task_specs, exState,
          taskState, spawnedBy, tasks, todo, missing_tasks, reruns,
          operation, childStatus, actionEx, requests, child_i, parent0,
          current0, again>>

\* the re-run request, the engine's execution tree and resume_workflow's locals
rerunVars == <<rerun_ex_ref, task_specs, exState, taskState, spawnedBy, tasks,
               todo, missing_tasks, reruns>>

\* the record of the latest merge
mergeVars == <<parent0, current0, again>>

\* the lifecycle operation, the children and the parent-side record
cascadeVars == <<operation, childStatus, actionEx, requests, child_i>>

\* what an invocation is given: changed only when the orchestrator invokes
inputs == <<def_dict, workflow_param, registered0, runs, depth, rerunVars,
            cascadeVars, mergeVars>>

\* ---------------------------------------------------------- context merger
MovedKeys == {"workflow_name", "workflow_execution_id"}

\* the whole parent sub-map is kept as parent
build_mistral_context_untrimmed(parent, current) ==
    IF parent = EmptyMap \/ "mistral" \notin DOMAIN parent
    THEN [k \in {"mistral"} |-> current]
    ELSE [k \in {"mistral"} |->
             Update(Update(parent["mistral"], current),
                    [k2 \in {"parent"} |-> parent["mistral"]])]

\* the parent's fields win over the current ones
build_mistral_context_parent_wins(parent, current) ==
    IF parent = EmptyMap \/ "mistral" \notin DOMAIN parent
    THEN [k \in {"mistral"} |-> current]
    ELSE LET orig_parent_context == parent["mistral"]
             moved == MovedKeys \cap DOMAIN orig_parent_context
             actual_parent == [k \in moved |-> orig_parent_context[k]]
             remaining == [k \in (DOMAIN orig_parent_context) \ moved |->
                              orig_parent_context[k]]
         IN [k \in {"mistral"} |->
                Update(Update(current, remaining),
                       [k2 \in {"parent"} |-> actual_parent])]

build_mistral_context(parent, current) ==
    IF parent = EmptyMap
    THEN [k \in {"mistral"} |-> current]
    ELSE IF "mistral" \in DOMAIN parent
    THEN LET orig_parent_context == parent["mistral"]
             moved == MovedKeys \cap DOMAIN orig_parent_context
             actual_parent == [k \in moved |-> orig_parent_context[k]]
             remaining == [k \in (DOMAIN orig_parent_context) \ moved |->
                              orig_parent_context[k]]
         IN [k \in {"mistral"} |->
                Update(Update(remaining, current),
                       [k2 \in {"parent"} |-> actual_parent])]
    ELSE [k \in {"mistral"} |-> current]

\* a shallow copy: the nested mistral dict is the caller's own
SharedAfterShallowCopy == {"mistral"}

\* parent = copy.deepcopy(parent): the dicts of the working object that are
\* also dicts of the caller's object
SharedAfterCopy == {}

\* the caller's object once _build_mistral_context has returned: the del,
\* update and ['parent'] assignments are made in place on the working
\* object's mistral dict, and show in the caller's when the dict is shared
caller_after(parent, current) ==
    IF /\ "mistral" \in SharedAfterCopy
       /\ parent # EmptyMap
       /\ "mistral" \in DOMAIN parent
    THEN [parent EXCEPT
             !["mistral"] = build_mistral_context(parent, current)["mistral"]]
    ELSE parent

\* ------------------------------------------------------------ input sets
\* the workflows mappings a workbook may declare: none, one, two
WorkflowSets == {{}, {"a"}, {"a", "b"}}

\* yaml.safe_load of the entry point, then transform_definition and safe_dump:
\* a non-workbook document has top-level keys (version apart), a workbook has
\* a name and a workflows mapping; text is the transformed YAML handed on.
Docs ==
    [isWorkbook : {FALSE}, keys : SUBSET {ActionRef, OtherRef}, name : {<<>>},
     workflows : {{}}, text : Texts]
    \cup
    [isWorkbook : {TRUE}, keys : {{}}, name : {ActionRef, OtherRef, <<>>},
     workflows : WorkflowSets, text : Texts]

NoDoc == [isWorkbook |-> FALSE, keys |-> {}, name |-> <<>>, workflows |-> {},
          text |-> 0]

\* runner_parameters.get('workflow'): <<>> when absent
Selections == {<<>>, <<"a">>, <<"pack", "wf", "a">>, <<"pack", "wf", "c">>}

ParentField(k) ==
    CASE k = "execution_id" -> "px"
      [] k = "workflow_name" -> <<"parent", "wf">>
      [] k = "workflow_execution_id" -> "pwx"
      [] k = "action_execution_id" -> "pax"

\* the mistral sub-maps a caller's context may carry: none of the keys, what
\* this runner returns (with or without the parent task's action execution),
\* and what a parent workflow's st2 action passes down
ParentKeySets ==
    {{},
     {"execution_id", "workflow_name"},
     {"execution_id", "workflow_name", "action_execution_id"},
     {"workflow_name", "workflow_execution_id", "action_execution_id"},
     {"execution_id", "workflow_name", "workflow_execution_id",
      "action_execution_id"}}

\* what one invocation of start_workflow reads: the definition file and the
\* 'workflow' runner parameter (read only for workbooks)
StartInputs ==
    {[def_dict |-> d, workflow |-> w] : d \in Docs, w \in Selections}
    \ {in \in [def_dict : Docs, workflow : Selections] :
          ~in.def_dict.isWorkbook /\ in.workflow # <<>>}

\* self.context as the orchestrator hands it over
InitContexts ==
    {EmptyMap, [k \in {"user"} |-> "stanley"]}
    \cup
    {[k \in {"mistral"} |-> [f \in D |-> ParentField(f)]] : D \in ParentKeySets}

NoResult == [status |-> "", partial_results |-> [tasks |-> <<>>],
             context |-> EmptyMap]
NoExecution == [id |-> 0, workflow_name |-> <<>>, state |-> ""]
NoRegistry == [workflows |-> {}, workbooks |-> {}]
NoRef == [present |-> FALSE, context |-> EmptyMap]
NoCall == [op |-> "", res |-> ""]
NoSave == [kind |-> "", text |-> 0, muts |-> <<>>, status |-> ""]

\* --------------------------------------------------------- remote engine
\* how a remote call may go wrong besides what the registry implies
Faults == {"ok", "transient", "permanent"}

\* outcome of a call: an injected fault, else what the engine state implies
EngineResult(f, fine, otherwise) ==
    IF f # "ok" THEN f ELSE IF fine THEN "ok" ELSE otherwise

LogCall(op, f, res) ==
    /\ calls' = Append(calls, [op |-> op, ok |-> (res = "ok")])
    /\ lastCall' = [op |-> op, res |-> res]
    /\ faulted' = (faulted \/ f # "ok")

\* ------------------------------------------------------------ retry envelope
\* utils.retry_on_exceptions: only transient engine failures are retried
retry_on_exceptions(e) == e = "transient"

\* every exception is retried while the budget lasts
Raise_any(e) ==
    IF retries < MaxRetries
    THEN /\ pc' = "run"
         /\ retries' = retries + 1
         /\ error' = ""
    ELSE /\ pc' = "done"
         /\ retries' = retries
         /\ error' = e

\* an exception leaves run(): the decorator re-runs it or lets it out
Raise(e) ==
    IF retry_on_exceptions(e) /\ retries < MaxRetries
    THEN /\ pc' = "run"
         /\ retries' = retries + 1
         /\ error' = ""
    ELSE /\ pc' = "done"
         /\ retries' = retries
         /\ error' = e

Continue(next) ==
    /\ pc' = next
    /\ UNCHANGED <<retries, error>>

\* The definition texts worth telling apart when run() is invoked. A text is
\* only ever compared for equality with the texts the engine holds and with
\* the one saved last, so a new definition is one of those or one text
\* that is none of them (the least unused one stands for all the others).
KnownTexts == (workflows \cup workbooks \cup {curSave.text}) \cap Texts

InputTexts ==
    KnownTexts
    \cup {t \in Texts \ KnownTexts : \A u \in Texts \ KnownTexts : t <= u}

\* ------------------------------------------------------------------ run()
\* the orchestrator calls run() on a fresh action (no re-run reference)
Invoke ==
    /\ pc = "idle"
    /\ runs < MaxRuns
    /\ runs' = runs + 1
    /\ pc' = "run"
    /\ \E in \in StartInputs :
          /\ in.def_dict.text \in InputTexts
          /\ def_dict' = in.def_dict
          /\ workflow_param' = in.workflow
    /\ registered0' = [workflows |-> workflows, workbooks |-> workbooks]
    /\ UNCHANGED <<retries, error, result, calls, lastCall, faulted, workflows,
                   workbooks, executions, execution, wb, default_workflow,
                   context, prevSave, curSave, created, depth, rerunVars,
                   cascadeVars, mergeVars>>

\* run() has returned or raised: the runner instance is discarded, the
\* engine keeps its registry and executions
Finish ==
    /\ pc = "done"
    /\ pc' = "idle"
    /\ retries' = 0
    /\ error' = ""
    /\ result' = NoResult
    /\ created' = 0
    /\ calls' = <<>>
    /\ lastCall' = NoCall
    /\ faulted' = FALSE
    /\ registered0' = NoRegistry
    /\ def_dict' = NoDoc
    /\ workflow_param' = <<>>
    /\ wb' = {}
    /\ execution' = NoExecution
    /\ default_workflow' = <<>>
    /\ context' = EmptyMap
    /\ prevSave' = NoSave
    /\ curSave' = [curSave EXCEPT !.muts = <<>>]
    /\ rerun_ex_ref' = NoRef
    /\ task_specs' = EmptyMap
    /\ tasks' = EmptyMap
    /\ todo' = {}
    /\ missing_tasks' = {}
    /\ reruns' = <<>>
    /\ operation' = ""
    /\ requests' = <<>>
    /\ child_i' = 0
    /\ UNCHANGED <<workflows, workbooks, executions, runs, depth, exState,
                   taskState, spawnedBy, childStatus, actionEx, mergeVars>>

\* one attempt of a decorated method: pause(), resume() or cancel() when
\* one of them was invoked; else run(), which with a re-run reference and
\* requested tasks resumes, and otherwise starts the workflow
Run ==
    /\ pc = "run"
    /\ LET resume == rerun_ex_ref.present /\ task_specs # EmptyMap IN
          /\ pc' = IF operation # "" THEN "cascade_check"
                   ELSE IF resume THEN "resume_check" ELSE "start_list"
          /\ calls' = IF retries = 0 \/ resume
                      THEN <<>>
                      ELSE Append(calls, [op |-> "retry", ok |-> TRUE])
    /\ wb' = {}
    /\ execution' = NoExecution
    /\ default_workflow' = <<>>
    /\ tasks' = EmptyMap
    /\ todo' = {}
    /\ missing_tasks' = {}
    /\ child_i' = 0
    /\ UNCHANGED <<retries, error, result, lastCall, faulted, registered0,
                   workflows, workbooks, executions, def_dict, workflow_param,
                   context, runs, prevSave, curSave, created, depth,
                   rerun_ex_ref, task_specs, exState, taskState, spawnedBy,
                   reruns, operation, childStatus, actionEx, requests,
                   mergeVars>>

\* ---------------------------------------------------------- start_workflow
\* "Test connection": self._client.workflows.list()
start_workflow_list ==
    /\ pc = "start_list"
    /\ \E f \in Faults :
          LET res == EngineResult(f, TRUE, "ok") IN
          /\ LogCall("workflows.list", f, res)
          /\ IF res = "ok" THEN Continue("start_load") ELSE Raise(res)
    /\ UNCHANGED <<result, workflows, workbooks, executions, execution, wb,
                   default_workflow, context, prevSave, curSave, created,
                   inputs>>

\* a non-workbook definition must hold exactly one workflow
SingleWorkflow(d) == Cardinality(d.keys) = 1

\* _check_name: the workbook's name, or the workflow's key, is action_ref
check_name(action_ref, is_workbook, d) ==
    IF is_workbook
    THEN d.name = action_ref
    ELSE (CHOOSE k \in d.keys : TRUE) = action_ref

\* load and parse the definition, validate it locally
start_workflow_load ==
    /\ pc = "start_load"
    /\ LET d == def_dict IN
          IF ~d.isWorkbook /\ ~SingleWorkflow(d)
          THEN Raise("MultipleWorkflows")
          ELSE IF ~check_name(ActionRef, d.isWorkbook, d)
          THEN Raise("NameMismatch")
          ELSE Continue(IF d.isWorkbook THEN "wb_get" ELSE "wf_get")
    /\ UNCHANGED <<result, calls, lastCall, faulted, workflows, workbooks,
                   executions,
                   execution, wb, default_workflow, context, prevSave,
                   curSave, created, inputs>>

\* ------------------------------------------------- _save_workbook/_workflow
SaveEnter(kind) ==
    /\ prevSave' = curSave
    /\ curSave' = [kind |-> kind, text |-> def_dict.text, muts |-> <<>>,
                   status |-> "running"]

SaveStep(op, st) ==
    /\ curSave' = [curSave EXCEPT !.muts = IF op = "" THEN @ ELSE Append(@, op),
                                  !.status = st]
    /\ UNCHANGED prevSave

\* the engine keeps the definition text it is given
Stored(def_yaml) == {def_yaml}

\* a registered definition is left as it is
needs_update_never(local, def_yaml) == FALSE

\* the definition is updated whether it differs or not
needs_update_always(local, def_yaml) == TRUE

\* wb.definition != def_yaml
needs_update(local, def_yaml) == local # {def_yaml}

\* the stale workflow is not deleted before the workbook is created
after_workbook_get_nodelete(res) ==
    IF res = "ok" THEN "wb_update" ELSE "wb_create"

\* try: get(name)  except: delete the other kind, then create
after_workbook_get(res) == IF res = "ok" THEN "wb_update" ELSE "wb_delete"

after_workflow_get(res) == IF res = "ok" THEN "wf_update" ELSE "wf_delete"

\* _save_workbook: self._client.workbooks.get(name); any exception is taken
\* for "not found"
save_workbook_get ==
    /\ pc = "wb_get"
    /\ \E f \in Faults :
          LET res == EngineResult(f, workbooks # {}, "notfound") IN
          /\ LogCall("workbooks.get", f, res)
          /\ wb' = IF res = "ok" THEN workbooks ELSE wb
          /\ Continue(after_workbook_get(res))
    /\ SaveEnter("workbook")
    /\ UNCHANGED <<result, workflows, workbooks, executions, execution,
                   default_workflow, context, created, inputs>>

\* delete the definition of the other kind; a failure of the delete is ignored
save_workbook_delete ==
    /\ pc = "wb_delete"
    /\ \E f \in Faults :
          LET res == EngineResult(f, workflows # {}, "notfound") IN
          /\ LogCall("workflows.delete", f, res)
          /\ workflows' = IF res = "ok" THEN {} ELSE workflows
          /\ Continue("wb_create")
    /\ SaveStep("delete", "running")
    /\ UNCHANGED <<result, workbooks, executions, execution, wb,
                   default_workflow, context, created, inputs>>

\* self._client.workbooks.create(def_yaml): the engine rejects a duplicate
save_workbook_create ==
    /\ pc = "wb_create"
    /\ \E f \in Faults :
          LET res == EngineResult(f, workbooks = {}, "conflict") IN
          /\ LogCall("workbooks.create", f, res)
          /\ IF res = "ok"
             THEN /\ workbooks' = Stored(def_dict.text)
                  /\ wb' = Stored(def_dict.text)
                  /\ Continue("wb_update")
                  /\ SaveStep("create", "running")
             ELSE /\ UNCHANGED <<workbooks, wb>>
                  /\ Raise(res)
                  /\ SaveStep("create", "raised")
    /\ UNCHANGED <<result, workflows, executions, execution, default_workflow,
                   context, created, inputs>>

\* if wb.definition != def_yaml: self._client.workbooks.update(def_yaml)
save_workbook_update ==
    /\ pc = "wb_update"
    /\ IF needs_update(wb, def_dict.text)
       THEN \E f \in Faults :
               LET res == EngineResult(f, workbooks # {}, "notfound") IN
               /\ LogCall("workbooks.update", f, res)
               /\ IF res = "ok"
                  THEN /\ workbooks' = Stored(def_dict.text)
                       /\ Continue("find_default")
                       /\ SaveStep("update", "returned")
                  ELSE /\ UNCHANGED workbooks
                       /\ Raise(res)
                       /\ SaveStep("update", "raised")
       ELSE /\ Continue("find_default")
            /\ SaveStep("", "returned")
            /\ UNCHANGED <<calls, lastCall, faulted, workbooks>>
    /\ default_workflow' = default_workflow
    /\ UNCHANGED <<result, workflows, executions, execution, wb, context,
                   created, inputs>>

\* _save_workflow: self._client.workflows.get(name); any exception is taken
\* for "not found"
save_workflow_get ==
    /\ pc = "wf_get"
    /\ \E f \in Faults :
          LET res == EngineResult(f, workflows # {}, "notfound") IN
          /\ LogCall("workflows.get", f, res)
          /\ wb' = IF res = "ok" THEN workflows ELSE wb
          /\ Continue(after_workflow_get(res))
    /\ SaveEnter("workflow")
    /\ UNCHANGED <<result, workflows, workbooks, executions, execution,
                   default_workflow, context, created, inputs>>

\* delete the definition of the other kind; a failure of the delete is ignored
save_workflow_delete ==
    /\ pc = "wf_delete"
    /\ \E f \in Faults :
          LET res == EngineResult(f, workbooks # {}, "notfound") IN
          /\ LogCall("workbooks.delete", f, res)
          /\ workbooks' = IF res = "ok" THEN {} ELSE workbooks
          /\ Continue("wf_create")
    /\ SaveStep("delete", "running")
    /\ UNCHANGED <<result, workflows, executions, execution, wb,
                   default_workflow, context, created, inputs>>

\* self._client.workflows.create(def_yaml): the engine rejects a duplicate
save_workflow_create ==
    /\ pc = "wf_create"
    /\ \E f \in Faults :
          LET res == EngineResult(f, workflows = {}, "conflict") IN
          /\ LogCall("workflows.create", f, res)
          /\ IF res = "ok"
             THEN /\ workflows' = Stored(def_dict.text)
                  /\ wb' = Stored(def_dict.text)
                  /\ Continue("wf_update")
                  /\ SaveStep("create", "running")
             ELSE /\ UNCHANGED <<workflows, wb>>
                  /\ Raise(res)
                  /\ SaveStep("create", "raised")
    /\ UNCHANGED <<result, workbooks, executions, execution, default_workflow,
                   context, created, inputs>>

\* if wf.definition != def_yaml: self._client.workflows.update(def_yaml)
save_workflow_update ==
    /\ pc = "wf_update"
    /\ IF needs_update(wb, def_dict.text)
       THEN \E f \in Faults :
               LET res == EngineResult(f, workflows # {}, "notfound") IN
               /\ LogCall("workflows.update", f, res)
               /\ IF res = "ok"
                  THEN /\ workflows' = Stored(def_dict.text)
                       /\ Continue("exec_create")
                       /\ SaveStep("update", "returned")
                  ELSE /\ UNCHANGED workflows
                       /\ Raise(res)
                       /\ SaveStep("update", "raised")
       ELSE /\ Continue("exec_create")
            /\ SaveStep("", "returned")
            /\ UNCHANGED <<calls, lastCall, faulted, workflows>>
    /\ default_workflow' = ActionRef
    /\ UNCHANGED <<result, workbooks, executions, execution, wb, context,
                   created, inputs>>

\* ---------------------------------------------------- _find_default_workflow
\* the part of a dotted name after its last dot
Leaf(name) == name[Len(name)]

\* without a selection the first declared workflow is taken
find_default_workflow_first(d, sel) ==
    IF d.workflows = {}
    THEN [err |-> "EmptyWorkbook", name |-> <<>>]
    ELSE IF sel = <<>> \/ Cardinality(d.workflows) = 1
    THEN [err |-> "", name |-> Append(d.name, CHOOSE k \in d.workflows : TRUE)]
    ELSE IF Len(sel) = 1
    THEN [err |-> "SubstringNotFound", name |-> <<>>]
    ELSE IF Leaf(sel) \notin d.workflows
    THEN [err |-> "WorkflowNotFound", name |-> <<>>]
    ELSE [err |-> "", name |-> sel]

find_default_workflow(d, sel) ==
    LET num_workflows == Cardinality(d.workflows) IN
    IF num_workflows > 1
    THEN IF sel = <<>>
         THEN [err |-> "AmbiguousWorkflow", name |-> <<>>]
         ELSE IF Len(sel) = 1
         THEN [err |-> "SubstringNotFound", name |-> <<>>]
         ELSE IF Leaf(sel) \notin d.workflows
         THEN [err |-> "WorkflowNotFound", name |-> <<>>]
         ELSE [err |-> "", name |-> sel]
    ELSE IF num_workflows = 1
    THEN [err |-> "", name |-> Append(d.name, CHOOSE k \in d.workflows : TRUE)]
    ELSE [err |-> "EmptyWorkbook", name |-> <<>>]

start_workflow_find_default ==
    /\ pc = "find_default"
    /\ LET r == find_default_workflow(def_dict, workflow_param) IN
          /\ default_workflow' = r.name
          /\ IF r.err = "" THEN Continue("exec_create") ELSE Raise(r.err)
    /\ UNCHANGED <<result, calls, lastCall, faulted, workflows, workbooks,
                   executions,
                   execution, wb, context, prevSave, curSave, created, inputs>>

\* a call that timed out has created the execution all the same
creates_on_timeout(res) == res \in {"ok", "transient"}

\* executions.create leaves an execution behind exactly when it succeeds
creates(res) == res = "ok"

\* execution = self._client.executions.create(name, workflow_input, **options)
start_workflow_create ==
    /\ pc = "exec_create"
    /\ \E f \in Faults :
          LET res == EngineResult(f, TRUE, "ok") IN
          /\ LogCall("executions.create", f, res)
          /\ IF creates(res)
             THEN /\ executions' = Append(executions, Len(executions) + 1)
                  /\ created' = created + 1
             ELSE UNCHANGED <<executions, created>>
          /\ IF res = "ok"
             THEN /\ execution' = [id |-> Len(executions) + 1,
                                   workflow_name |-> default_workflow,
                                   state |-> "RUNNING"]
                  /\ Continue("start_return")
             ELSE /\ UNCHANGED execution
                  /\ Raise(res)
    /\ UNCHANGED <<result, workflows, workbooks, wb, default_workflow,
                   context, prevSave, curSave, inputs>>

\* 'execution_id': str(execution.id), 'workflow_name': execution.workflow_name
current_context(ex) ==
    [execution_id |-> IdStr(ex.id), workflow_name |-> ex.workflow_name]

\* status, partial_results and the merged context are returned
start_workflow_return ==
    /\ pc = "start_return"
    /\ \E c \in InitContexts :
          /\ context' = c
          /\ result' = [status |-> "running",
                        partial_results |-> [tasks |-> <<>>],
                        context |-> build_mistral_context(c,
                            current_context(execution))]
    /\ Continue("done")
    /\ UNCHANGED <<calls, lastCall, faulted, workflows, workbooks, executions,
                   execution, wb, default_workflow, prevSave, curSave,
                   created, inputs>>

\* ------------------------------------------------------------ specification
\* what the engine holds under the action's name before the first run:
\* nothing, or one earlier definition. Texts are only ever compared for
\* equality, so the earlier definition is text 1 without loss: the text
\* run() registers ranges over all of Texts, equal to it or not.
Registries == {{}, {1}}

Init ==
    /\ pc = "idle"
    /\ retries = 0
    /\ error = ""
    /\ result = NoResult
    /\ calls = <<>>
    /\ lastCall = NoCall
    /\ faulted = FALSE
    /\ registered0 = NoRegistry
    /\ workflows \in Registries
    /\ workbooks \in Registries
    /\ executions = <<>>
    /\ execution = NoExecution
    /\ def_dict = NoDoc
    /\ workflow_param = <<>>
    /\ wb = {}
    /\ default_workflow = <<>>
    /\ context = EmptyMap
    /\ runs = 0
    /\ prevSave = NoSave
    /\ curSave = NoSave
    /\ created = 0
    /\ depth = 0
    /\ rerun_ex_ref = NoRef
    /\ task_specs = EmptyMap
    /\ exState = <<>>
    /\ taskState = <<>>
    /\ spawnedBy = <<>>
    /\ tasks = EmptyMap
    /\ todo = {}
    /\ missing_tasks = {}
    /\ reruns = <<>>
    /\ operation = ""
    /\ childStatus = <<>>
    /\ actionEx = ""
    /\ requests = <<>>
    /\ child_i = 0
    /\ parent0 = EmptyMap
    /\ current0 = EmptyMap
    /\ again = EmptyMap

Next ==
    \/ Invoke
    \/ Finish
    \/ Run
    \/ start_workflow_list
    \/ start_workflow_load
    \/ save_workbook_get
    \/ save_workbook_delete
    \/ save_workbook_create
    \/ save_workbook_update
    \/ save_workflow_get
    \/ save_workflow_delete
    \/ save_workflow_create
    \/ save_workflow_update
    \/ start_workflow_find_default
    \/ start_workflow_create
    \/ start_workflow_return

Spec == Init /\ [][Next]_vars

\* ------------------------------------------------ chained context merges
\* what start_workflow / resume_workflow pass as current_context for the
\* n-th execution of a chain
CurrentFields(n) ==
    {current_context([id |-> n, workflow_name |-> w, state |-> "RUNNING"]) :
        w \in {ActionRef, <<"pack", "wf", "a">>, <<"pack", "wf", "b">>}}

InitMerge ==
    /\ pc = "idle"
    /\ retries = 0
    /\ error = ""
    /\ result = NoResult
    /\ calls = <<>>
    /\ lastCall = NoCall
    /\ faulted = FALSE
    /\ registered0 = NoRegistry
    /\ workflows = {}
    /\ workbooks = {}
    /\ executions = <<>>
    /\ execution = NoExecution
    /\ def_dict = NoDoc
    /\ workflow_param = <<>>
    /\ wb = {}
    /\ default_workflow = <<>>
    /\ context \in InitContexts
    /\ runs = 0
    /\ prevSave = NoSave
    /\ curSave = NoSave
    /\ created = 0
    /\ depth = 0
    /\ rerun_ex_ref = NoRef
    /\ task_specs = EmptyMap
    /\ exState = <<>>
    /\ taskState = <<>>
    /\ spawnedBy = <<>>
    /\ tasks = EmptyMap
    /\ todo = {}
    /\ missing_tasks = {}
    /\ reruns = <<>>
    /\ operation = ""
    /\ childStatus = <<>>
    /\ actionEx = ""
    /\ requests = <<>>
    /\ child_i = 0
    /\ parent0 = EmptyMap
    /\ current0 = EmptyMap
    /\ again = EmptyMap

\* exec_context = self._build_mistral_context(self.context, current_context),
\* where a child's self.context is the context its parent's run returned
merge_chain ==
    /\ depth < MaxDepth
    /\ \E cur \in CurrentFields(depth + 1) :
          LET parent == IF depth = 0 THEN context ELSE result.context IN
          /\ parent0' = parent
          /\ current0' = cur
          /\ context' = caller_after(parent, cur)
          /\ result' = [status |-> "running",
                        partial_results |-> [tasks |-> <<>>],
                        context |-> build_mistral_context(parent, cur)]
    /\ again' = EmptyMap
    /\ depth' = depth + 1
    /\ UNCHANGED <<pc, retries, error, calls, lastCall, faulted, registered0,
                   workflows, workbooks,
                   executions, execution, def_dict, workflow_param, wb,
                   default_workflow, runs, prevSave, curSave, created,
                   rerunVars, cascadeVars>>

\* the same call once more, on the caller's object as the call left it
merge_repeat ==
    /\ depth >= 1
    /\ again = EmptyMap
    /\ again' = build_mistral_context(context, current0)
    /\ context' = caller_after(context, current0)
    /\ UNCHANGED <<pc, retries, error, result, calls, lastCall, faulted,
                   registered0, workflows, workbooks, executions, execution,
                   def_dict, workflow_param, wb, default_workflow, runs,
                   prevSave, curSave, created, depth, parent0, current0,
                   rerunVars, cascadeVars>>

NextMerge == merge_chain \/ merge_repeat

SpecMerge == InitMerge /\ [][NextMerge]_vars

\* ------------------------------------------------------- engine's tree
\* The executions and task executions the engine holds when a re-run is
\* asked for: execution 1 is the root, with two task executions named A
\* (ids 1, 2) and one named B (id 3); execution 2 was spawned by task 1 and
\* holds a task B (id 4); execution 3 holds a task B (id 5) and was spawned
\* by task 2 or by a task of another workflow (spawnedBy).
TaskName == <<"A", "A", "B", "B", "B">>
TaskExec == <<1, 1, 1, 2, 3>>
TaskIds == DOMAIN TaskName
ExecIds == <<1, 2, 3>>
ExecStates == {"ERROR", "RUNNING", "SUCCESS"}
TaskStates == {"ERROR", "SUCCESS"}
Topologies == {<<0, 1, 2>>, <<0, 1, 9>>}

\* the task names a re-run may ask for, dotted names as segments
RerunNames == {<<"A">>, <<"B">>, <<"A", "B">>, <<"C">>}

\* resume_options['reset']: no task, or the tasks named B
ResetLists == {{}, {<<"B">>, <<"A", "B">>}}

\* task_specs of run(), from resume_options['tasks'] (at most MaxTasks
\* names) and resume_options['reset']
TaskSpecs ==
    {[n \in T |-> [reset |-> n \in tasks_to_reset]] :
        T \in {S \in SUBSET RerunNames : Cardinality(S) \in 1..MaxTasks},
        tasks_to_reset \in ResetLists}

\* rerun_ex_ref.context: without a mistral sub-map, with an empty
\* execution_id, with the root execution's id
RefContexts ==
    {EmptyMap,
     [k \in {"mistral"} |-> [execution_id |-> ""]],
     [k \in {"mistral"} |-> [execution_id |-> IdStr(ExecIds[1])]]}

\* self._client.tasks.list(workflow_execution_id=wf_ex_id)
tasks_list(wf_ex_id) ==
    SelectSeq([i \in TaskIds |-> i], LAMBDA t : TaskExec[t] = wf_ex_id)

\* the dict built without the state filter
leaf_tasks_any_state(task_exs, full_task_name, task_name) ==
    LET hits == {i \in DOMAIN task_exs :
                    TaskName[task_exs[i]] = task_name[1]}
    IN IF hits = {}
       THEN EmptyMap
       ELSE [k \in {full_task_name} |->
                task_exs[CHOOSE i \in hits : \A j \in hits : j <= i]]

\* {full_task_name: task for task in task_exs if name and state match}:
\* the last match is the one the dict keeps
leaf_tasks(task_exs, full_task_name, task_name) ==
    LET hits == {i \in DOMAIN task_exs :
                    /\ TaskName[task_exs[i]] = task_name[1]
                    /\ taskState[task_exs[i]] = "ERROR"}
    IN IF hits = {}
       THEN EmptyMap
       ELSE [k \in {full_task_name} |->
                task_exs[CHOOSE i \in hits : \A j \in hits : j <= i]]

RECURSIVE get_tasks(_, _, _, _)
RECURSIVE sub_tasks(_, _, _, _, _)

\* for sub_wf_ex_id in workflow_ex_ids: tasks.update(self._get_tasks(...))
sub_tasks(workflow_ex_ids, i, full_task_name, task_name, exs) ==
    IF i > Len(workflow_ex_ids)
    THEN EmptyMap
    ELSE Update(get_tasks(workflow_ex_ids[i], full_task_name, task_name, exs),
                sub_tasks(workflow_ex_ids, i + 1, full_task_name, task_name,
                          exs))

\* _get_tasks
get_tasks(wf_ex_id, full_task_name, task_name, exs) ==
    LET task_exs == tasks_list(wf_ex_id) IN
    IF Len(task_name) > 1
    THEN LET parent_task_name == Head(task_name)
             parent_task_ids ==
                 {task_exs[i] : i \in {j \in DOMAIN task_exs :
                     TaskName[task_exs[j]] = parent_task_name}}
             workflow_ex_ids ==
                 SelectSeq(exs, LAMBDA e : /\ spawnedBy[e] # 0
                                           /\ spawnedBy[e] \in parent_task_ids)
         IN sub_tasks(workflow_ex_ids, 1, full_task_name, Tail(task_name), exs)
    ELSE leaf_tasks(task_exs, full_task_name, task_name)

\* --------------------------------------------------------- resume_workflow
\* the orchestrator calls run() with a re-run reference and requested tasks
InvokeRerun ==
    /\ pc = "idle"
    /\ runs < MaxReruns
    /\ runs' = runs + 1
    /\ pc' = "run"
    /\ \E c \in RefContexts : rerun_ex_ref' = [present |-> TRUE, context |-> c]
    /\ task_specs' \in TaskSpecs
    /\ UNCHANGED <<retries, error, result, calls, lastCall, faulted,
                   registered0, workflows, workbooks, executions, execution,
                   def_dict, workflow_param, wb, default_workflow, context,
                   prevSave, curSave, created, depth, exState, taskState,
                   spawnedBy, tasks, todo, missing_tasks, reruns, cascadeVars,
                   mergeVars>>

\* what every step of resume_workflow leaves alone
resumeFrame == <<workflows, workbooks, executions, def_dict, workflow_param,
                 registered0, wb, default_workflow, runs, prevSave, curSave,
                 created, depth, rerun_ex_ref, task_specs, spawnedBy,
                 cascadeVars, mergeVars>>

mistral_ctx(ex_ref) ==
    IF "mistral" \in DOMAIN ex_ref.context
    THEN ex_ref.context["mistral"]
    ELSE EmptyMap

\* if not mistral_ctx.get('execution_id'): raise
resume_workflow_check ==
    /\ pc = "resume_check"
    /\ IF Truthy(mistral_ctx(rerun_ex_ref), "execution_id")
       THEN Continue("resume_get")
       ELSE Raise("MissingExecutionId")
    /\ UNCHANGED <<result, calls, lastCall, faulted, execution, context,
                   exState, taskState, tasks, todo, missing_tasks, reruns,
                   resumeFrame>>

\* an execution still running is accepted as well
rerunable_running(state) == state \in {"ERROR", "RUNNING"}

\* execution.state not in ['ERROR'] is refused
rerunable(state) == state = "ERROR"

\* execution = self._client.executions.get(...), then the state check
resume_workflow_get ==
    /\ pc = "resume_get"
    /\ \E f \in Faults :
          LET id == mistral_ctx(rerun_ex_ref)["execution_id"]
              found == {e \in DOMAIN exState : IdStr(e) = id}
              res == EngineResult(f, found # {}, "notfound")
              e == CHOOSE x \in found : TRUE
          IN /\ LogCall("executions.get", f, res)
             /\ IF res # "ok"
                THEN /\ Raise(res)
                     /\ UNCHANGED execution
                ELSE /\ execution' = [id |-> e, workflow_name |-> ActionRef,
                                      state |-> exState[e]]
                     /\ IF rerunable(exState[e])
                        THEN Continue("resume_list")
                        ELSE Raise("NotRerunable")
    /\ UNCHANGED <<result, context, exState, taskState, tasks, todo,
                   missing_tasks, reruns, resumeFrame>>

\* executions = self._client.executions.list()
resume_workflow_list ==
    /\ pc = "resume_list"
    /\ \E f \in Faults :
          LET res == EngineResult(f, TRUE, "ok") IN
          /\ LogCall("executions.list", f, res)
          /\ IF res = "ok"
             THEN Continue("resume_resolve")
             ELSE Raise(res)
    /\ UNCHANGED <<result, execution, context, exState, taskState, tasks,
                   todo, missing_tasks, reruns, resumeFrame>>

RECURSIVE resolve_all(_, _, _, _)

\* for task_name, task_spec in task_specs:
\*     tasks.update(self._get_tasks(execution.id, task_name, task_name, ...))
resolve_all(names, wf_ex_id, exs, acc) ==
    IF names = {}
    THEN acc
    ELSE LET n == CHOOSE x \in names : TRUE IN
         resolve_all(names \ {n}, wf_ex_id, exs,
                     Update(acc, get_tasks(wf_ex_id, n, n, exs)))

\* the resolution loop: its calls only read (tasks.list), so one fault
\* stands for a failure of any of them
resume_workflow_resolve ==
    /\ pc = "resume_resolve"
    /\ \E f \in Faults :
          LET res == EngineResult(f, TRUE, "ok") IN
          /\ LogCall("tasks.list", f, res)
          /\ IF res = "ok"
             THEN /\ tasks' = resolve_all(DOMAIN task_specs, execution.id,
                                          executions, EmptyMap)
                  /\ Continue("resume_missing")
             ELSE /\ Raise(res)
                  /\ UNCHANGED tasks
    /\ UNCHANGED <<result, execution, context, exState, taskState, todo,
                   missing_tasks, reruns, resumeFrame>>

\* the requested names that resolved to no task: only the first is reported
missing_of_first(specs, found) ==
    LET m == (DOMAIN specs) \ (DOMAIN found) IN
    IF m = {} THEN {} ELSE {CHOOSE n \in m : TRUE}

\* missing_tasks = list(set(task_specs.keys()) - set(tasks.keys()))
missing_of(specs, found) == (DOMAIN specs) \ (DOMAIN found)

\* if missing_tasks: raise, naming them
resume_workflow_missing ==
    /\ pc = "resume_missing"
    /\ LET missing == missing_of(task_specs, tasks) IN
          IF missing # {}
          THEN /\ missing_tasks' = missing
               /\ Raise("UnknownRerunTargets")
               /\ UNCHANGED todo
          ELSE /\ missing_tasks' = {}
               /\ todo' = DOMAIN tasks
               /\ Continue("resume_rerun")
    /\ UNCHANGED <<result, calls, lastCall, faulted, execution, context,
                   exState, taskState, tasks, reruns, resumeFrame>>

\* self._client.tasks.rerun(task_obj['id'], reset=..., env=...): the engine
\* refuses a task that is not in ERROR; a re-run task runs again, and so
\* may the root execution
resume_workflow_rerun ==
    /\ pc = "resume_rerun"
    /\ \E n \in todo, f \in Faults :
          LET t == tasks[n]
              res == EngineResult(f, taskState[t] = "ERROR", "conflict")
          IN /\ LogCall("tasks.rerun", f, res)
             /\ reruns' = Append(reruns, [id |-> t,
                                          reset |-> task_specs[n].reset,
                                          ok |-> (res = "ok")])
             /\ IF res = "ok"
                THEN /\ taskState' = [taskState EXCEPT ![t] = "RUNNING"]
                     /\ exState' \in
                          {exState,
                           [exState EXCEPT ![execution.id] = "RUNNING"]}
                     /\ todo' = todo \ {n}
                     /\ Continue("resume_rerun")
                ELSE /\ Raise(res)
                     /\ UNCHANGED <<taskState, exState, todo>>
    /\ UNCHANGED <<result, execution, context, tasks, missing_tasks,
                   resumeFrame>>

\* self.context of a re-run: empty, or with the mistral sub-map of a parent
\* workflow's action
RerunContexts ==
    {c \in InitContexts :
        \/ c = EmptyMap
        \/ /\ "mistral" \in DOMAIN c
           /\ "workflow_execution_id" \in DOMAIN c["mistral"]
           /\ "execution_id" \notin DOMAIN c["mistral"]}

\* status, partial_results and the merged context are returned
resume_workflow_return ==
    /\ pc = "resume_rerun"
    /\ todo = {}
    /\ \E c \in RerunContexts :
          /\ context' = c
          /\ result' = [status |-> "running",
                        partial_results |-> [tasks |-> <<>>],
                        context |-> build_mistral_context(c,
                                        current_context(execution))]
    /\ Continue("done")
    /\ UNCHANGED <<calls, lastCall, faulted, execution, exState, taskState,
                   tasks, todo, missing_tasks, reruns, resumeFrame>>

InitResume ==
    /\ pc = "idle"
    /\ retries = 0
    /\ error = ""
    /\ result = NoResult
    /\ calls = <<>>
    /\ lastCall = NoCall
    /\ faulted = FALSE
    /\ registered0 = NoRegistry
    /\ workflows = {}
    /\ workbooks = {}
    /\ executions = ExecIds
    /\ execution = NoExecution
    /\ def_dict = NoDoc
    /\ workflow_param = <<>>
    /\ wb = {}
    /\ default_workflow = <<>>
    /\ context = EmptyMap
    /\ runs = 0
    /\ prevSave = NoSave
    /\ curSave = NoSave
    /\ created = 0
    /\ depth = 0
    /\ rerun_ex_ref = NoRef
    /\ task_specs = EmptyMap
    /\ \E s \in ExecStates : exState = <<s, "ERROR", "ERROR">>
    /\ taskState \in [TaskIds -> TaskStates]
    /\ spawnedBy \in Topologies
    /\ tasks = EmptyMap
    /\ todo = {}
    /\ missing_tasks = {}
    /\ reruns = <<>>
    /\ operation = ""
    /\ childStatus = <<>>
    /\ actionEx = ""
    /\ requests = <<>>
    /\ child_i = 0
    /\ parent0 = EmptyMap
    /\ current0 = EmptyMap
    /\ again = EmptyMap

NextResume ==
    \/ InvokeRerun
    \/ Finish
    \/ Run
    \/ resume_workflow_check
    \/ resume_workflow_get
    \/ resume_workflow_list
    \/ resume_workflow_resolve
    \/ resume_workflow_missing
    \/ resume_workflow_rerun
    \/ resume_workflow_return

SpecResume == InitResume /\ [][NextResume]_vars

\* ------------------------------------------------ pause, resume, cancel
CascadeOps == {"pause", "resume", "cancel"}

\* the children of self.execution, by position: their runner names
ChildRunner == <<"mistral-v2", "local-shell-cmd", "action-chain">>
Children == DOMAIN ChildRunner

\* action_constants.WORKFLOW_RUNNER_TYPES
WORKFLOW_RUNNER_TYPES == {"action-chain", "mistral-v2"}

\* action_constants.LIVEACTION_CANCELABLE_STATES
LIVEACTION_CANCELABLE_STATES ==
    {"requested", "scheduled", "delayed", "running", "pausing", "paused"}

\* the statuses a child is found in
ChildStatuses == {"running", "paused", "succeeded"}

\* self.context of a lifecycle call: with or without the mistral sub-map,
\* its execution_id and action_execution_id, and the 'parent' marker
CascadeMistral ==
    {[action_execution_id |-> "ax"],
     [execution_id |-> ""],
     [execution_id |-> IdStr(ExecIds[1])],
     [execution_id |-> IdStr(ExecIds[1]), action_execution_id |-> "ax"],
     [execution_id |-> IdStr(ExecIds[1]), action_execution_id |-> ""]}

CascadeContexts ==
    {EmptyMap}
    \cup {[k \in {"mistral"} |-> m] : m \in CascadeMistral}
    \cup {[k \in {"mistral", "parent"} |->
              IF k = "mistral" THEN m ELSE [execution_id |-> "pax"]] :
          m \in CascadeMistral}

\* the state each method asks the engine for
TargetState(o) ==
    CASE o = "pause" -> "PAUSED"
      [] o = "resume" -> "RUNNING"
      [] o = "cancel" -> "CANCELLED"

\* the status each method returns
ReturnStatus(o) ==
    CASE o = "pause" -> "pausing"
      [] o = "resume" -> "running"
      [] o = "cancel" -> "canceling"

\* what action_service.request_pause / request_resume /
\* request_cancellation leave as the child's status
RequestedStatus(o) ==
    CASE o = "pause" -> "pausing"
      [] o = "resume" -> "resuming"
      [] o = "cancel" -> "canceling"

\* the orchestrator calls pause(), resume() or cancel()
InvokeCascade ==
    /\ pc = "idle"
    /\ runs < MaxRuns
    /\ runs' = runs + 1
    /\ pc' = "run"
    /\ operation' \in CascadeOps
    /\ context' \in CascadeContexts
    /\ UNCHANGED <<retries, error, result, calls, lastCall, faulted,
                   registered0, workflows, workbooks, executions, execution,
                   def_dict, workflow_param, wb, default_workflow, prevSave,
                   curSave, created, depth, rerunVars, childStatus, actionEx,
                   requests, child_i, mergeVars>>

\* what every step of pause, resume and cancel leaves alone
cascadeFrame == <<workflows, workbooks, executions, execution, def_dict,
                  workflow_param, registered0, wb, default_workflow, runs,
                  prevSave, curSave, created, depth, context, operation,
                  rerun_ex_ref, task_specs, taskState, spawnedBy, tasks, todo,
                  missing_tasks, reruns, mergeVars>>

\* mistral_ctx = self.context.get('mistral', dict())
cascade_ctx ==
    IF "mistral" \in DOMAIN context THEN context["mistral"] ELSE EmptyMap

\* 'parent' in self.context and mistral_ctx.get('action_execution_id')
has_parent_action ==
    "parent" \in DOMAIN context /\ Truthy(cascade_ctx, "action_execution_id")

\* the first engine call of each method: pause and cancel update the root
\* execution and then the parent-side record, resume the other way round
FirstStep(o) == IF o = "resume" THEN "cascade_parent" ELSE "cascade_root"

AfterRoot(o) == IF o = "resume" THEN "cascade_children" ELSE "cascade_parent"

AfterParent(o) == IF o = "resume" THEN "cascade_root" ELSE "cascade_children"

\* if not mistral_ctx.get('execution_id'): raise
cascade_check ==
    /\ pc = "cascade_check"
    /\ IF Truthy(cascade_ctx, "execution_id")
       THEN Continue(FirstStep(operation))
       ELSE Raise("MissingExecutionId")
    /\ UNCHANGED <<result, calls, lastCall, faulted, exState, childStatus,
                   actionEx, requests, child_i, cascadeFrame>>

\* self._client.executions.update(mistral_ctx.get('execution_id'), state)
cascade_root ==
    /\ pc = "cascade_root"
    /\ \E f \in Faults :
          LET id == cascade_ctx["execution_id"]
              found == {e \in DOMAIN exState : IdStr(e) = id}
              res == EngineResult(f, found # {}, "notfound")
          IN /\ LogCall("executions.update", f, res)
             /\ IF res = "ok"
                THEN /\ exState' = [e \in DOMAIN exState |->
                                       IF e \in found
                                       THEN TargetState(operation)
                                       ELSE exState[e]]
                     /\ Continue(AfterRoot(operation))
                ELSE /\ Raise(res)
                     /\ UNCHANGED exState
    /\ UNCHANGED <<result, childStatus, actionEx, requests, child_i,
                   cascadeFrame>>

\* self._client.action_executions.update(mistral_action_ex_id, state), when
\* the workflow runs under a parent workflow
cascade_parent ==
    /\ pc = "cascade_parent"
    /\ IF has_parent_action
       THEN \E f \in Faults :
               LET res == EngineResult(f, TRUE, "ok") IN
               /\ LogCall("action_executions.update", f, res)
               /\ IF res = "ok"
                  THEN /\ actionEx' = TargetState(operation)
                       /\ Continue(AfterParent(operation))
                  ELSE /\ Raise(res)
                       /\ UNCHANGED actionEx
       ELSE /\ Continue(AfterParent(operation))
            /\ UNCHANGED <<calls, lastCall, faulted, actionEx>>
    /\ UNCHANGED <<result, exState, childStatus, requests, child_i,
                   cascadeFrame>>

\* every status is forwarded to
Forwards_any_status(o, status) == TRUE

\* the child status each method forwards to
Forwards(o, status) ==
    CASE o = "pause" -> status = "running"
      [] o = "resume" -> status = "paused"
      [] o = "cancel" -> status \in LIVEACTION_CANCELABLE_STATES

\* one pass of the loop over self.execution.children: the record is read
\* from the orchestrator's store (which may fail) and the request is made
\* when the runner is a workflow runner and the status is the expected one
cascade_child ==
    /\ pc = "cascade_children"
    /\ child_i < Len(childStatus)
    /\ LET c == child_i + 1 IN
       \E f \in {"ok", "store_error"} :
          IF f = "ok"
          THEN /\ child_i' = c
               /\ Continue("cascade_children")
               /\ IF /\ ChildRunner[c] \in WORKFLOW_RUNNER_TYPES
                     /\ Forwards(operation, childStatus[c])
                  THEN /\ requests' = Append(requests,
                                             [child |-> c, kind |-> operation,
                                              status |-> childStatus[c]])
                       /\ childStatus' = [childStatus EXCEPT
                                             ![c] = RequestedStatus(operation)]
                  ELSE UNCHANGED <<requests, childStatus>>
          ELSE /\ Raise(f)
               /\ UNCHANGED <<requests, childStatus, child_i>>
    /\ UNCHANGED <<result, calls, lastCall, faulted, exState, actionEx,
                   cascadeFrame>>

\* return (status, self.liveaction.result, self.liveaction.context)
cascade_return ==
    /\ pc = "cascade_children"
    /\ child_i = Len(childStatus)
    /\ result' = [status |-> ReturnStatus(operation),
                  partial_results |-> [tasks |-> <<>>],
                  context |-> context]
    /\ Continue("done")
    /\ UNCHANGED <<calls, lastCall, faulted, exState, childStatus, actionEx,
                   requests, child_i, cascadeFrame>>

InitCascade ==
    /\ pc = "idle"
    /\ retries = 0
    /\ error = ""
    /\ result = NoResult
    /\ calls = <<>>
    /\ lastCall = NoCall
    /\ faulted = FALSE
    /\ registered0 = NoRegistry
    /\ workflows = {}
    /\ workbooks = {}
    /\ executions = ExecIds
    /\ execution = NoExecution
    /\ def_dict = NoDoc
    /\ workflow_param = <<>>
    /\ wb = {}
    /\ default_workflow = <<>>
    /\ context = EmptyMap
    /\ runs = 0
    /\ prevSave = NoSave
    /\ curSave = NoSave
    /\ created = 0
    /\ depth = 0
    /\ rerun_ex_ref = NoRef
    /\ task_specs = EmptyMap
    /\ exState = <<"RUNNING", "RUNNING", "RUNNING">>
    /\ taskState = [t \in TaskIds |-> "RUNNING"]
    /\ spawnedBy = <<0, 1, 2>>
    /\ tasks = EmptyMap
    /\ todo = {}
    /\ missing_tasks = {}
    /\ reruns = <<>>
    /\ operation = ""
    /\ childStatus \in [Children -> ChildStatuses]
    /\ actionEx = "RUNNING"
    /\ requests = <<>>
    /\ child_i = 0
    /\ parent0 = EmptyMap
    /\ current0 = EmptyMap
    /\ again = EmptyMap

NextCascade ==
    \/ InvokeCascade
    \/ Finish
    \/ Run
    \/ cascade_check
    \/ cascade_root
    \/ cascade_parent
    \/ cascade_child
    \/ cascade_return

SpecCascade == InitCascade /\ [][NextCascade]_vars

\* ------------------------------------------------------------------ claims
Succeeded == pc = "done" /\ error = "" /\ result.status = "running"

HasEngine(c) == "mistral" \in DOMAIN c

\* C1: when the caller's context has an engine sub-map with execution_id and
\* workflow_name, the merged context's engine.parent is exactly
\* {execution_id, workflow_name} of the caller.
C1_ParentCarriesIdAndName ==
    (Succeeded /\ HasEngine(context)
       /\ {"execution_id", "workflow_name"} \subseteq DOMAIN context["mistral"])
    => /\ "parent" \in DOMAIN result.context["mistral"]
       /\ result.context["mistral"]["parent"] =
             [execution_id |-> context["mistral"]["execution_id"],
              workflow_name |-> context["mistral"]["workflow_name"]]

\* C2: after any chain of merges, each result being the parent of the next,
\* engine.parent has no parent key of its own.
C2_ParentDepthAtMostOne ==
    (depth >= 1 /\ "parent" \in DOMAIN result.context["mistral"])
    => "parent" \notin DOMAIN result.context["mistral"]["parent"]

C2_Witness ==
    /\ depth >= 3
    /\ "parent" \in DOMAIN result.context["mistral"]
    /\ "parent" \in DOMAIN context["mistral"]

\* ----- helpers over the call log
Issued(op) == \E i \in DOMAIN calls : calls[i].op = op

CountOk(op) ==
    Cardinality({i \in DOMAIN calls : calls[i].op = op /\ calls[i].ok})

MutatingOps == {"workflows.create", "workflows.update", "workflows.delete",
                "workbooks.create", "workbooks.update", "workbooks.delete",
                "executions.create"}

Registry == [workflows |-> workflows, workbooks |-> workbooks]

ValidWorkflowDoc ==
    ~def_dict.isWorkbook /\ def_dict.keys = {ActionRef}

C3_Case == pc = "done" /\ ValidWorkflowDoc /\ registered0 = NoRegistry

\* C3: starting a single-Workflow action named action_ref with nothing
\* registered creates the workflow registration, submits exactly one
\* execution for action_ref and returns RUNNING, {tasks: []} and a context
\* whose engine execution_id / workflow_name are those of that execution.
C3_StartSingleWorkflow ==
    C3_Case =>
      /\ ~faulted => Succeeded
      /\ Succeeded =>
           /\ CountOk("workflows.create") = 1
           /\ workflows = {def_dict.text}
           /\ created = 1
           /\ CountOk("executions.create") = 1
           /\ execution.workflow_name = ActionRef
           /\ execution.id = executions[Len(executions)]
           /\ result.status = "running"
           /\ result.partial_results = [tasks |-> <<>>]
           /\ result.context["mistral"]["execution_id"] = IdStr(execution.id)
           /\ result.context["mistral"]["workflow_name"] =
                 execution.workflow_name

C3_Witness ==
    /\ C3_Case
    /\ Succeeded
    /\ HasEngine(context)
    /\ "execution_id" \in DOMAIN context["mistral"]

ValidationErrors == {"NameMismatch", "MultipleWorkflows", "AmbiguousWorkflow",
                     "WorkflowNotFound", "EmptyWorkbook"}

\* C4: when start fails on a registration, validation or naming failure,
\* that call has created, updated or deleted no registration and created no
\* execution.
C4_NoPartialStateOnFailure ==
    (pc = "done" /\ error \in ValidationErrors)
    => /\ Registry = registered0
       /\ created = 0
       /\ \A i \in DOMAIN calls : ~(calls[i].op \in MutatingOps /\ calls[i].ok)

LocalValidationErrors == {"NameMismatch", "MultipleWorkflows"}

\* C5 as stated: a start that ends in a local validation error has issued no
\* remote call at all.
C5_NoRemoteCallBeforeValidation ==
    (pc = "done" /\ error \in LocalValidationErrors) => calls = <<>>

\* C5 as amended: a start that ends in a local validation error has issued
\* only the connectivity listing (workflows.list, once per attempt, only the
\* last one succeeding) and no other remote call.
C5_OnlyListingBeforeValidation ==
    (pc = "done" /\ error \in LocalValidationErrors)
    => /\ \A i \in DOMAIN calls : calls[i].op \in {"workflows.list", "retry"}
       /\ CountOk("workflows.list") = 1
       /\ calls[Len(calls)] = [op |-> "workflows.list", ok |-> TRUE]
       /\ Registry = registered0
       /\ created = 0

C5_Witness ==
    /\ pc = "done"
    /\ error = "MultipleWorkflows"
    /\ Issued("retry")
    /\ registered0 # NoRegistry

C6_Case ==
    /\ pc = "done"
    /\ def_dict.isWorkbook
    /\ def_dict.name = ActionRef
    /\ Cardinality(def_dict.workflows) >= 2
    /\ workflow_param = <<>>

\* C6: start of a workbook declaring two or more workflows with no
\* 'workflow' selection fails with the ambiguous-workflow error (the engine
\* permitting) and issues no execution-create call.
C6_AmbiguousWorkbookFails ==
    C6_Case =>
      /\ error # ""
      /\ result = NoResult
      /\ ~Issued("executions.create")
      /\ created = 0
      /\ ~faulted => error = "AmbiguousWorkflow"

C6_Witness == C6_Case /\ error = "AmbiguousWorkflow" /\ ~faulted

CountCreateUpdate(muts) ==
    Cardinality({i \in DOMAIN muts : muts[i] \in {"create", "update"}})

RegisteredAs(kind) == IF kind = "workbook" THEN workbooks ELSE workflows

SameDefinitionTwice ==
    /\ prevSave.status = "returned"
    /\ curSave.status = "returned"
    /\ prevSave.kind = curSave.kind
    /\ prevSave.text = curSave.text

\* C7: reconciling the same definition text twice in a row issues at most
\* one create or update in the first call and no create, update or delete
\* in the second; after either call the registered text is the given text.
C7_ReconcileIdempotent ==
    /\ CountCreateUpdate(curSave.muts) <= 1
    /\ curSave.status = "returned"
          => RegisteredAs(curSave.kind) = {curSave.text}
    /\ SameDefinitionTwice => curSave.muts = <<>>

C7_Witness ==
    /\ SameDefinitionTwice
    /\ runs = 2
    /\ retries = 0
    /\ pc = "done"

CreateAfterDelete(create, delete) ==
    \A i \in DOMAIN calls :
        calls[i].op = create => (i > 1 /\ calls[i - 1].op = delete)

\* C8: when reconcile finds the requested kind absent it issues the delete
\* of the opposite kind before the create, a delete that succeeds removes
\* the stale registration, and a delete that fails (not found) does not
\* make reconcile fail: the create follows.
C8_DeleteBeforeCreate ==
    /\ CreateAfterDelete("workbooks.create", "workflows.delete")
    /\ CreateAfterDelete("workflows.create", "workbooks.delete")
    /\ lastCall.op = "workflows.delete"
          => (pc = "wb_create" /\ error = ""
              /\ (lastCall.res = "ok" => workflows = {}))
    /\ lastCall.op = "workbooks.delete"
          => (pc = "wf_create" /\ error = ""
              /\ (lastCall.res = "ok" => workbooks = {}))
    /\ (curSave.status = "returned" /\ CountCreateUpdate(curSave.muts) = 1
        /\ curSave.muts[Len(curSave.muts)] = "create")
          => curSave.muts = <<"delete", "create">>

C8_Witness ==
    /\ registered0.workflows # {}
    /\ registered0.workbooks = {}
    /\ curSave.kind = "workbook"
    /\ curSave.status = "returned"
    /\ curSave.muts = <<"delete", "create">>
    /\ workflows = {}
    /\ workbooks = {def_dict.text}
    /\ retries = 0

C8_WitnessNotFound ==
    /\ lastCall = [op |-> "workflows.delete", res |-> "notfound"]
    /\ pc = "wb_create"

\* the root execution of the tree
RootExec == ExecIds[1]

\* the failed task executions a requested name stands for: a plain name,
\* those of that name in the root execution; a dotted name A.B, those named
\* B in the executions spawned by a root task named A
FailedIn(e, name) ==
    {t \in TaskIds : /\ TaskExec[t] = e
                     /\ TaskName[t] = name
                     /\ taskState[t] = "ERROR"}

Selected(n) ==
    IF Len(n) = 1
    THEN FailedIn(RootExec, n[1])
    ELSE UNION {FailedIn(e, n[2]) :
                   e \in {x \in DOMAIN spawnedBy :
                             \E p \in TaskIds : /\ TaskExec[p] = RootExec
                                                /\ TaskName[p] = n[1]
                                                /\ spawnedBy[x] = p}}

\* C9: a re-run attempt that finds the root execution in a state other than
\* ERROR ends with the not-rerunable error, returns nothing and issues no
\* tasks.rerun call; a tasks.rerun call is only ever issued by an attempt
\* that found the root execution in ERROR.
C9_RerunRequiresRootError ==
    /\ (pc = "done" /\ execution # NoExecution /\ execution.state # "ERROR")
       => /\ error = "NotRerunable"
          /\ result = NoResult
          /\ ~Issued("tasks.rerun")
    /\ Issued("tasks.rerun")
       => (execution # NoExecution /\ execution.state = "ERROR")
    /\ (execution # NoExecution /\ pc \notin {"done", "resume_get"})
       => execution.state = "ERROR"

C9_Witness ==
    /\ pc = "done"
    /\ error = "NotRerunable"
    /\ execution.state = "SUCCESS"
    /\ Selected(<<"B">>) # {}
    /\ <<"B">> \in DOMAIN task_specs

\* C10: a re-run attempt in which a requested name resolves to no failed
\* task execution ends with an error naming exactly the requested names
\* that resolve to none, all of them, and issues no tasks.rerun call, not
\* even for the names that resolved; tasks.rerun calls are only issued once
\* every requested name has resolved.
C10_AllOrNothingResolution ==
    /\ (pc = "resume_missing")
       => DOMAIN tasks = {n \in DOMAIN task_specs : Selected(n) # {}}
    /\ (pc = "done" /\ error = "UnknownRerunTargets")
       => /\ missing_tasks = {n \in DOMAIN task_specs : Selected(n) = {}}
          /\ missing_tasks # {}
          /\ result = NoResult
          /\ ~Issued("tasks.rerun")
    /\ (pc = "done" /\ execution # NoExecution /\ ~faulted
        /\ execution.state = "ERROR"
        /\ \E n \in DOMAIN task_specs : Selected(n) = {}
        /\ reruns = <<>>)
       => error = "UnknownRerunTargets"
    /\ Issued("tasks.rerun") => DOMAIN tasks = DOMAIN task_specs

C10_Witness ==
    /\ pc = "done"
    /\ error = "UnknownRerunTargets"
    /\ Cardinality(missing_tasks) >= 2
    /\ tasks # EmptyMap
    /\ reruns = <<>>

\* the tasks.rerun calls of the current attempt, as recorded in reruns
AttemptReruns ==
    LET k == Cardinality({i \in DOMAIN calls : calls[i].op = "tasks.rerun"})
    IN SubSeq(reruns, Len(reruns) - k + 1, Len(reruns))

\* C11: every tasks.rerun call targets a task execution that was in ERROR
\* when the attempt resolved it: the tasks still to re-run are in ERROR,
\* the engine never refuses a call because its task is not in ERROR, and a
\* task execution that was not in ERROR is never the target of a call, also
\* when a failed task execution of the same name is re-run.
C11_OnlyFailedTasksRerun ==
    /\ pc = "resume_missing"
       => \A n \in DOMAIN tasks : taskState[tasks[n]] = "ERROR"
    /\ pc = "resume_rerun"
       => \A n \in todo : taskState[tasks[n]] = "ERROR"
    /\ lastCall.op = "tasks.rerun" => lastCall.res # "conflict"
    /\ \A i \in DOMAIN AttemptReruns :
          /\ \E n \in DOMAIN tasks : tasks[n] = AttemptReruns[i].id
          /\ AttemptReruns[i].ok
             => taskState[AttemptReruns[i].id] = "RUNNING"
    /\ \A t \in TaskIds :
          taskState[t] = "SUCCESS"
          => \A i \in DOMAIN reruns : reruns[i].id # t

C11_Witness ==
    /\ pc = "done"
    /\ result.status = "running"
    /\ taskState[2] = "SUCCESS"
    /\ taskState[5] = "SUCCESS"
    /\ \E i \in DOMAIN reruns : reruns[i].id = 1 /\ reruns[i].ok
    /\ \E i \in DOMAIN reruns : reruns[i].id = 4 /\ reruns[i].ok

\* C12 as stated: the resolution of the dotted name A.B holds exactly the
\* failed task executions named B of the executions spawned by a root task
\* named A.
C12_DottedSelectsExactly ==
    (pc = "resume_missing" /\ <<"A", "B">> \in DOMAIN task_specs)
    => IF Selected(<<"A", "B">>) = {}
       THEN <<"A", "B">> \notin DOMAIN tasks
       ELSE /\ <<"A", "B">> \in DOMAIN tasks
            /\ {tasks[<<"A", "B">>]} = Selected(<<"A", "B">>)

\* what holds of the dotted name: its resolution is one of the task
\* executions it stands for, never one of another scope
DottedWithinScope ==
    (pc = "resume_missing" /\ <<"A", "B">> \in DOMAIN tasks)
    => tasks[<<"A", "B">>] \in Selected(<<"A", "B">>)

\* C13 as stated: a re-run whose requested names all resolve and that
\* returns has issued a tasks.rerun call for every failed task execution
\* the requested names stand for, each with the reset flag of its name, so
\* that none of them is left in ERROR.
C13_EveryResolvedTaskRerun ==
    /\ (pc = "resume_missing" /\ missing_of(task_specs, tasks) = {})
       => {tasks[n] : n \in DOMAIN tasks}
             = UNION {Selected(n) : n \in DOMAIN task_specs}
    /\ (pc = "done" /\ result.status = "running")
       => \A n \in DOMAIN task_specs : Selected(n) = {}

\* what holds of a re-run that returns: one tasks.rerun call per requested
\* name, on the task execution the name resolved to, with the name's flag
OneRerunPerName ==
    (pc = "done" /\ result.status = "running" /\ retries = 0)
    => /\ Len(reruns) = Cardinality(DOMAIN task_specs)
       /\ \A n \in DOMAIN task_specs :
             \E i \in DOMAIN reruns :
                reruns[i] = [id |-> tasks[n], reset |-> task_specs[n].reset,
                             ok |-> TRUE]

\* the tasks.rerun calls of the earlier attempts of this invocation
EarlierReruns == SubSeq(reruns, 1, Len(reruns) - Len(AttemptReruns))

\* a retry of a re-run whose earlier attempt re-ran some task and then met
\* a transient failure, and whose own remote calls all succeed
RetryAfterPartialRerun ==
    /\ pc = "done"
    /\ retries > 0
    /\ \E i \in DOMAIN EarlierReruns : EarlierReruns[i].ok
    /\ \A i \in DOMAIN calls : calls[i].ok

\* C14 as stated: the retry that follows a transient failure of one
\* tasks.rerun call, after other calls of the same re-run succeeded, issues
\* the remaining calls, repeats none that succeeded, and returns RUNNING
\* when the failure does not recur.
C14_RetryCompletesRerun ==
    RetryAfterPartialRerun
    => /\ error = ""
       /\ result.status = "running"
       /\ \A i, j \in DOMAIN reruns :
             (reruns[i].ok /\ reruns[j].ok /\ reruns[i].id = reruns[j].id)
             => i = j

\* what holds of such a retry: it repeats no call that succeeded; it ends
\* with the not-rerunable or the unknown-targets error, unless every
\* requested name has yet another failed task execution, which it re-runs
RetryRepeatsNoRerun ==
    /\ \A i, j \in DOMAIN reruns :
          (reruns[i].ok /\ reruns[j].ok /\ reruns[i].id = reruns[j].id)
          => i = j
    /\ RetryAfterPartialRerun
       => /\ error \in {"", "NotRerunable", "UnknownRerunTargets"}
          /\ error = ""
             => /\ Len(AttemptReruns) = Cardinality(DOMAIN task_specs)
                /\ \A i \in DOMAIN EarlierReruns :
                      \A j \in DOMAIN AttemptReruns :
                         EarlierReruns[i].ok
                         => EarlierReruns[i].id # AttemptReruns[j].id

\* the remote calls of the current attempt of the method
AttemptCalls ==
    LET marks == {i \in DOMAIN calls : calls[i].op = "retry"}
        from == IF marks = {} THEN 1
                ELSE 1 + CHOOSE i \in marks : \A j \in marks : j <= i
    IN SubSeq(calls, from, Len(calls))

\* in this attempt the call named first was made and succeeded before the
\* call named second was made
OkBefore(first, second) ==
    \A j \in DOMAIN AttemptCalls :
       AttemptCalls[j].op = second
       => \E i \in 1..(j - 1) :
             AttemptCalls[i] = [op |-> first, ok |-> TRUE]

\* in this attempt the root transition, and the parent-side transition when
\* there is a parent-side record, succeeded
RootAndParentDone ==
    /\ \E i \in DOMAIN AttemptCalls :
          AttemptCalls[i] = [op |-> "executions.update", ok |-> TRUE]
    /\ has_parent_action
       => \E i \in DOMAIN AttemptCalls :
             AttemptCalls[i] = [op |-> "action_executions.update", ok |-> TRUE]

\* C15 as stated: in pause, resume and cancel the root execution's
\* transition comes first, then the parent-side action execution's, then
\* the requests to the children: the parent-side call is never made before
\* the root call has succeeded, and the children are only visited after both.
C15_CascadeOrder ==
    operation \in CascadeOps
    => /\ OkBefore("executions.update", "action_executions.update")
       /\ (pc = "cascade_children" \/ requests # <<>>) => RootAndParentDone

\* what holds: the order of pause and cancel is the stated one, resume
\* makes the parent-side call before the root call, and in all three the
\* children come last
CascadeOrderOfCode ==
    /\ operation \in {"pause", "cancel"}
       => OkBefore("executions.update", "action_executions.update")
    /\ (operation = "resume" /\ has_parent_action)
       => OkBefore("action_executions.update", "executions.update")
    /\ (operation \in CascadeOps
        /\ (pc = "cascade_children" \/ requests # <<>>))
       => RootAndParentDone

RequestsTo(c) == {i \in DOMAIN requests : requests[i].child = c}

\* the status a method expects of a child it forwards to
Expected(kind, status) ==
    \/ kind = "pause" /\ status = "running"
    \/ kind = "resume" /\ status = "paused"
    \/ kind = "cancel" /\ status \in LIVEACTION_CANCELABLE_STATES
                       /\ status # "succeeded"

\* C16: a lifecycle request goes only to a child whose runner is a workflow
\* runner and whose status, as the loop read it, is the one the method
\* expects (running for pause, paused for resume, a cancelable one and so
\* never succeeded for cancel); when the method returns, every such child
\* has received exactly one request and every other child none.
C16_ForwardOnlyMatchingChildren ==
    /\ \A i \in DOMAIN requests :
          /\ requests[i].kind = operation
          /\ ChildRunner[requests[i].child] \in WORKFLOW_RUNNER_TYPES
          /\ Expected(requests[i].kind, requests[i].status)
    /\ \A c \in Children : Cardinality(RequestsTo(c)) <= 1
    /\ (pc = "done" /\ error = "" /\ operation \in CascadeOps)
       => \A c \in Children :
             IF RequestsTo(c) # {}
             THEN childStatus[c] = RequestedStatus(operation)
             ELSE ~(/\ ChildRunner[c] \in WORKFLOW_RUNNER_TYPES
                    /\ Expected(operation, childStatus[c]))

C16_Witness ==
    /\ pc = "done"
    /\ error = ""
    /\ operation = "cancel"
    /\ Len(requests) = 1
    /\ requests[1].child = 3
    /\ requests[1].status = "pausing"
    /\ childStatus[1] = "succeeded"
    /\ childStatus[2] = "running"

\* self.context has no execution_id of the engine
LacksExecutionId ==
    \/ "mistral" \notin DOMAIN context
    \/ "execution_id" \notin DOMAIN context["mistral"]
    \/ context["mistral"]["execution_id"] = ""

\* C17: pause, resume and cancel on a context without the engine's
\* execution_id end with the missing-execution-id error before any effect:
\* no remote call, no request to a child, no retry, no result.
C17_MissingExecutionIdNoEffect ==
    (operation \in CascadeOps /\ LacksExecutionId /\ pc # "run")
    => /\ pc = "cascade_check" \/ (pc = "done" /\ error = "MissingExecutionId")
       /\ calls = <<>>
       /\ requests = <<>>
       /\ retries = 0
       /\ result = NoResult
       /\ ~faulted

C17_Witness ==
    /\ pc = "done"
    /\ error = "MissingExecutionId"
    /\ operation = "cancel"
    /\ "parent" \in DOMAIN context
    /\ "mistral" \in DOMAIN context
    /\ "execution_id" \notin DOMAIN context["mistral"]
    /\ \E c \in Children : childStatus[c] = "running"

\* the most recent remote call failed in the given way and nothing was
\* called or re-run since
LastCallFailed(kind) ==
    /\ calls # <<>>
    /\ calls[Len(calls)] = [op |-> lastCall.op, ok |-> FALSE]
    /\ lastCall.res = kind

\* the outcome the retry envelope gives a failed call: a transient failure
\* re-runs the method while the budget lasts and is raised when it is
\* spent, a permanent failure is raised at once
Enveloped ==
    /\ LastCallFailed("transient")
       => \/ pc = "run" /\ retries > 0
          \/ pc = "done" /\ error = "transient" /\ retries = MaxRetries
    /\ LastCallFailed("permanent")
       => pc = "done" /\ error = "permanent"

\* C18 as stated: every remote call is covered by the retry envelope; a
\* transient failure is retried within the budget and never taken for
\* another outcome, a permanent failure is raised without retry.
C18_EveryCallEnveloped == Enveloped

\* the calls whose failure _save_workbook and _save_workflow catch
CaughtOps ==
    {"workbooks.get", "workflows.get", "workbooks.delete", "workflows.delete"}

\* what holds: the envelope covers every call but the get and the delete
\* of _save_workbook and _save_workflow, after whose failure, of any kind,
\* the method goes on to delete or create
EnvelopedButCaught ==
    /\ lastCall.op \notin CaughtOps => Enveloped
    /\ (lastCall.op \in CaughtOps
        /\ (LastCallFailed("transient") \/ LastCallFailed("permanent")))
       => pc \in {"wb_delete", "wf_delete", "wb_create", "wf_create"}

\* the errors _find_default_workflow ends with
ResolveErrors ==
    {"AmbiguousWorkflow", "WorkflowNotFound", "EmptyWorkbook",
     "SubstringNotFound"}

\* a workbook's default workflow was resolved and the execution is next
Resolved == pc = "exec_create" /\ def_dict.isWorkbook

\* the outcomes the claim names, each in its case
ResolveBySelection ==
    LET n == Cardinality(def_dict.workflows) IN
    /\ Resolved
       => IF n = 1
          THEN \E w \in def_dict.workflows :
                  default_workflow = Append(ActionRef, w)
          ELSE /\ n > 1
               /\ workflow_param # <<>>
               /\ Leaf(workflow_param) \in def_dict.workflows
               /\ default_workflow = workflow_param
    /\ (pc = "done" /\ error = "EmptyWorkbook") => n = 0
    /\ (pc = "done" /\ error = "AmbiguousWorkflow")
       => (n > 1 /\ workflow_param = <<>>)
    /\ (pc = "done" /\ error = "WorkflowNotFound")
       => (n > 1 /\ workflow_param # <<>>
           /\ Leaf(workflow_param) \notin def_dict.workflows)

\* C19 as stated: on a workbook, one declared workflow gives action_ref, a
\* dot and its name whatever the selection; several give the selection,
\* the ambiguous-workflow error without one and the workflow-not-found
\* error when it names no declared workflow; none gives the empty-workbook
\* error; there is no other outcome.
C19_ResolveDefaultWorkflow ==
    /\ ResolveBySelection
    /\ (pc = "done" /\ error \in ResolveErrors)
       => error \in {"AmbiguousWorkflow", "WorkflowNotFound", "EmptyWorkbook"}

\* what holds: the named outcomes in their cases, and for a selection
\* without a dot the failure of rindex
ResolveOfCode ==
    /\ ResolveBySelection
    /\ (pc = "done" /\ error = "SubstringNotFound")
       => (Cardinality(def_dict.workflows) > 1 /\ Len(workflow_param) = 1)
    /\ Resolved => (workflow_param = <<>> \/ Len(workflow_param) > 1
                    \/ Cardinality(def_dict.workflows) = 1)

\* C20: a merge leaves the caller's context as it was before the call, its
\* mistral sub-map with workflow_name and every other key included, and
\* the same call made once more returns an equal result.
C20_MergeLeavesInputAlone ==
    depth >= 1
    => /\ context = parent0
       /\ again # EmptyMap => again = result.context

C20_Witness ==
    /\ depth >= 1
    /\ again # EmptyMap
    /\ "mistral" \in DOMAIN parent0
    /\ "workflow_name" \in DOMAIN parent0["mistral"]
    /\ "workflow_execution_id" \in DOMAIN parent0["mistral"]
    /\ "workflow_name" \in DOMAIN context["mistral"]
    /\ "parent" \in DOMAIN result.context["mistral"]
    /\ "workflow_name" \in DOMAIN result.context["mistral"]["parent"]

\* the calls of start before the execution is created
BeforeCreateOps ==
    {"workflows.list", "workflows.get", "workflows.create", "workflows.update",
     "workflows.delete", "workbooks.get", "workbooks.create",
     "workbooks.update", "workbooks.delete"}

\* C21: one invocation of start creates at most one execution, however
\* often the decorator re-runs it: the successful executions.create is the
\* last remote call of the invocation and nothing fails after it; the
\* attempts before it made only the listing, the registration calls and
\* failed executions.create calls.
C21_AtMostOneExecution ==
    /\ created <= 1
    /\ CountOk("executions.create") = created
    /\ \A i \in DOMAIN calls :
          /\ calls[i].op \in BeforeCreateOps \cup {"executions.create", "retry"}
          /\ (calls[i].op = "executions.create" /\ calls[i].ok)
             => i = Len(calls)
    /\ created = 1
       => /\ pc \in {"start_return", "done"}
          /\ error = ""
          /\ execution.id = executions[Len(executions)]

C21_Witness ==
    /\ pc = "done"
    /\ created = 1
    /\ retries >= 1
    /\ result.status = "running"
    /\ \E i \in DOMAIN calls :
          calls[i] = [op |-> "executions.create", ok |-> FALSE]

\* at most one kind of definition is registered under action_ref
OneKind(reg) == reg.workflows = {} \/ reg.workbooks = {}

\* the _save_* call of this invocation has returned
SaveReturned ==
    /\ curSave.status = "returned"
    /\ \/ pc \in {"find_default", "exec_create", "start_return"}
       \/ pc = "done" /\ (error \in ResolveErrors \/ result.status = "running")

\* C22: when at most one kind of definition was registered under
\* action_ref and no remote call fails but with not-found, a _save_* call
\* that returns leaves exactly one kind registered, the kind of the call,
\* with the text it was given; so the registry again holds one kind for the
\* next call, of either kind.
C22_OneKindAfterReconcile ==
    (SaveReturned /\ ~faulted /\ OneKind(registered0))
    => /\ RegisteredAs(curSave.kind) = {def_dict.text}
       /\ curSave.text = def_dict.text
       /\ curSave.kind = (IF def_dict.isWorkbook THEN "workbook" ELSE "workflow")
       /\ (IF def_dict.isWorkbook THEN workflows ELSE workbooks) = {}
       /\ OneKind(Registry)

C22_Witness ==
    /\ SaveReturned
    /\ ~faulted
    /\ runs = 2
    /\ registered0.workbooks = {}
    /\ registered0.workflows # {}
    /\ prevSave.status = "returned"
    /\ prevSave.kind = "workflow"
    /\ curSave.kind = "workbook"
    /\ prevSave.text # curSave.text
    /\ workbooks = {curSave.text}
    /\ workflows = {}

====
